---- MODULE Spec2Model ----
(***************************************************************************)
(* Numeric field filter state of the FiftyOne App                          *)
(* (app/packages/app/src/components/Filters/NumericFieldFilter.state.ts).  *)
(*                                                                         *)
(* The Recoil store is modelled by two variables: datasetStats (the        *)
(* aggregated statistics selector) and filterStage (the filter atom family *)
(* keyed by (path, modal)).  The selectors are operators over that state;  *)
(* evaluating a selector and writing through a selector are actions.       *)
(***************************************************************************)
EXTENDS Integers, Sequences, FiniteSets, TLC

VARIABLES
    datasetStats,      \* value of selectors.datasetStats: absent or a sequence
    filterStage,       \* the filterStage atom family, by <<path, modal>>
    lastOp,            \* the selector last evaluated or written, with its arguments
    noneFalseWritten,  \* history: keys noneAtom was ever written false for
    recording          \* whether noneFalseWritten is kept (SpecHistory only)

vars == <<datasetStats, filterStage, lastOp, noneFalseWritten, recording>>

(***************************************************************************)
(* Bounds of the model.                                                    *)
(***************************************************************************)
MaxVal == 1
MaxStats == 2

(***************************************************************************)
(* JavaScript values.  Every value carries its type tag so that ===, the   *)
(* truthiness test and the relational operators can be computed as the     *)
(* language computes them.                                                 *)
(***************************************************************************)
Null == [t |-> "null", n |-> 0]
Undefined == [t |-> "undefined", n |-> 0]
True == [t |-> "boolean", n |-> 1]
False == [t |-> "boolean", n |-> 0]
DefaultValue == [t |-> "DefaultValue", n |-> 0]
Num(i) == [t |-> "number", n |-> i]
\* a serialized date: {_cls: "DateTime", datetime: i}
DateTime(i) == [t |-> "object", n |-> i]

\* ToBoolean
Boolean(v) ==
    IF \/ v.t \in {"object", "DefaultValue"}
       \/ (v.t \in {"number", "boolean"} /\ v.n # 0)
    THEN True ELSE False

Truthy(v) == Boolean(v) = True

\* v.datetime
DatetimeOf(v) == IF v.t = "object" THEN Num(v.n) ELSE Undefined

\* ToNumber is NaN for undefined and for plain objects; null is 0
IsNaN(v) == v.t \in {"undefined", "object", "DefaultValue"}
ToNumber(v) == IF v.t = "null" THEN 0 ELSE v.n
Lt(a, b) == ~IsNaN(a) /\ ~IsNaN(b) /\ ToNumber(a) < ToNumber(b)
Gt(a, b) == ~IsNaN(a) /\ ~IsNaN(b) /\ ToNumber(a) > ToNumber(b)

\* optional values: absent (null / undefined) or present
None == <<>>
Some(x) == <<x>>

(***************************************************************************)
(* Field schema.                                                           *)
(***************************************************************************)
LIST_FIELD == "fiftyone.core.fields.ListField"
FRAME_SUPPORT_FIELD == "fiftyone.core.fields.FrameSupportField"
INT_FIELD == "fiftyone.core.fields.IntField"
FLOAT_FIELD == "fiftyone.core.fields.FloatField"
DATE_TIME_FIELD == "fiftyone.core.fields.DateTimeField"
DATE_FIELD == "fiftyone.core.fields.DateField"
STRING_FIELD == "fiftyone.core.fields.StringField"
VALID_LIST_FIELDS == {FRAME_SUPPORT_FIELD, LIST_FIELD}
VALID_NUMERIC_TYPES ==
    {FLOAT_FIELD, FRAME_SUPPORT_FIELD, INT_FIELD, DATE_FIELD, DATE_TIME_FIELD}
AGGS_BOUNDS == "Bounds"
AGGS_COUNT == "Count"

\* selectors.primitivesMap("sample")
primitivesMap ==
    [p \in {"confidence", "created", "birthday", "stamps", "scores",
            "support", "uniqueness", "label"} |->
        CASE p = "confidence" -> FLOAT_FIELD
          [] p = "created" -> DATE_TIME_FIELD
          [] p = "birthday" -> DATE_FIELD
          [] p = "stamps" -> LIST_FIELD
          [] p = "scores" -> LIST_FIELD
          [] p = "support" -> FRAME_SUPPORT_FIELD
          [] p = "uniqueness" -> INT_FIELD
          [] OTHER -> STRING_FIELD]

\* selectors.primitivesSubfieldMap("sample")
primitivesSubfieldMap ==
    [p \in {"stamps", "scores"} |->
        IF p = "stamps" THEN DATE_TIME_FIELD ELSE FLOAT_FIELD]

\* map[name] with a float type assumed for a missing key
Lookup_DefaultFloat(map, name) ==
    IF name \in DOMAIN map THEN map[name] ELSE FLOAT_FIELD

\* map[name]; a missing key reads as undefined
Lookup(map, name) == IF name \in DOMAIN map THEN map[name] ELSE "undefined"

\* isDateTimeField without the list-subfield indirection
isDateTimeField_NoListIndirection(name) ==
    DATE_TIME_FIELD = Lookup(primitivesMap, name)

isDateTimeField(name) ==
    LET map == IF Lookup(primitivesMap, name) = LIST_FIELD
               THEN primitivesSubfieldMap ELSE primitivesMap
    IN  DATE_TIME_FIELD = Lookup(map, name)

isDateField(name) ==
    LET map == IF Lookup(primitivesMap, name) = LIST_FIELD
               THEN primitivesSubfieldMap ELSE primitivesMap
    IN  DATE_FIELD = Lookup(map, name)

isNumericField(name) ==
    LET map == IF Lookup(primitivesMap, name) \in VALID_LIST_FIELDS
               THEN primitivesSubfieldMap ELSE primitivesMap
    IN  Lookup(map, name) \in VALID_NUMERIC_TYPES

isSupportField(name) == FRAME_SUPPORT_FIELD = Lookup(primitivesMap, name)

isIntField(name) ==
    LET map == IF Lookup(primitivesMap, name) \in VALID_LIST_FIELDS
               THEN primitivesSubfieldMap ELSE primitivesMap
    IN  Lookup(map, name) \in {FRAME_SUPPORT_FIELD, INT_FIELD}

(***************************************************************************)
(* Inputs.                                                                 *)
(***************************************************************************)
\* field paths the selectors are evaluated with ("missing" is in no map)
Paths == {"confidence", "created", "birthday", "stamps", "scores", "missing"}
\* field paths with a filter widget
FilterPaths == {"confidence", "created"}
\* filterStage keys in use: one field filtered in the grid, one in the modal
Keys == {<<"confidence", FALSE>>, <<"created", TRUE>>}

Vals == 0..MaxVal
NullRange == <<Null, Null>>
NumRanges == {<<Num(a), Num(b)>> : a \in Vals, b \in Vals}
OrderedRanges == {r \in NumRanges : r[1].n <= r[2].n}
DateRanges == {<<DateTime(r[1].n), DateTime(r[2].n)>> : r \in OrderedRanges}
\* ranges a slider can hand to rangeAtom
Ranges == OrderedRanges \cup {NullRange}
\* values Recoil can hand to noneAtom (DefaultValue on a reset)
NoneValues == {True, False, DefaultValue}
\* defaultRange argument: absent or a pair of numbers
NoRange == <<>>
DefaultRanges == {NoRange, <<Num(0), Num(MaxVal)>>}


BoundsEntry(name, result) == [name |-> name, _CLS |-> AGGS_BOUNDS, result |-> result]
CountEntry(name) == [name |-> name, _CLS |-> AGGS_COUNT, result |-> <<Num(MaxVal)>>]

\* statistics the server can send while filters are being edited
StatsChoices ==
    { None,
      Some(<<>>),
      Some(<<CountEntry("confidence"),
             BoundsEntry("confidence", <<Num(0), Num(MaxVal)>>),
             BoundsEntry("created", <<DateTime(0), DateTime(MaxVal)>>)>>),
      Some(<<BoundsEntry("created", <<DateTime(0), DateTime(0)>>),
             BoundsEntry("confidence", <<Num(MaxVal), Num(MaxVal)>>)>>),
      Some(<<BoundsEntry("confidence", NullRange),
             BoundsEntry("created", NullRange)>>) }

\* statistics entries of the fields that have aggregations
StatsEntries ==
    {CountEntry("confidence")}
    \cup {BoundsEntry("confidence", r) : r \in OrderedRanges \cup {NullRange}}
    \cup {BoundsEntry("created", r) : r \in DateRanges \cup {NullRange}}

\* one aggregation of each kind per field
OneEntryPerKind(s) ==
    \A i, j \in 1..Len(s) :
        (s[i].name = s[j].name /\ s[i]._CLS = s[j]._CLS) => i = j

\* every value selectors.datasetStats can have, up to MaxStats entries
StatsInputs ==
    {None} \cup
    {Some(s) : s \in {q \in UNION {[1..n -> StatsEntries] : n \in 0..MaxStats} :
                         OneEntryPerKind(q)}}

\* field names the type predicates are asked about; two are in no mapping
FieldNames == DOMAIN primitivesMap \cup Paths \cup {"ground_truth.label"}

\* fields whose bounds the server sends as serialized dates, and as numbers
DateStatsPaths == {"created", "birthday", "stamps"}
NumericStatsPaths == {"confidence", "scores"}

\* a bounds entry of every field that has bounds, typed as the server sends it
TypedEntries ==
    {BoundsEntry(p, r) : p \in NumericStatsPaths, r \in OrderedRanges \cup {NullRange}}
    \cup {BoundsEntry(p, r) : p \in DateStatsPaths, r \in DateRanges \cup {NullRange}}

\* statistics holding the bounds of one field, alone or after its count
TypedStatsInputs ==
    {None}
    \cup {Some(<<e>>) : e \in TypedEntries}
    \cup {Some(<<CountEntry(e.name), e>>) : e \in TypedEntries}

\* every defaultRange argument
DefaultRangeInputs == {NoRange} \cup NumRanges

(***************************************************************************)
(* Selectors.                                                              *)
(***************************************************************************)
\* the reducer of boundsAtom applied to stats[i..], starting from acc
RECURSIVE ReduceBounds(_, _, _, _, _)
ReduceBounds(stats, i, acc, path, isDateOrDateTime) ==
    IF i > Len(stats) THEN acc
    ELSE LET cur == stats[i]
             nxt == IF cur.name # path \/ cur._CLS # AGGS_BOUNDS THEN acc
                    ELSE IF isDateOrDateTime
                         THEN [j \in 1..Len(cur.result) |->
                                 IF Truthy(cur.result[j])
                                 THEN DatetimeOf(cur.result[j])
                                 ELSE cur.result[j]]
                         ELSE cur.result
         IN  ReduceBounds(stats, i + 1, nxt, path, isDateOrDateTime)

\* boundsAtom without the return of all-null bounds before the override
boundsAtom_NoEarlyReturn(path, defaultRange) ==
    LET isDateOrDateTime == isDateTimeField(path) \/ isDateField(path)
        stats == IF datasetStats = None THEN <<>> ELSE datasetStats[1]
        bounds == ReduceBounds(stats, 1, NullRange, path, isDateOrDateTime)
    IN  IF defaultRange # NoRange
        THEN << IF Lt(defaultRange[1], bounds[1])
                THEN defaultRange[1] ELSE bounds[1],
                IF Gt(defaultRange[2], bounds[2])
                THEN defaultRange[2] ELSE bounds[2] >>
        ELSE <<bounds[1], bounds[2]>>

\* boundsAtom with the two comparisons of the override exchanged
boundsAtom_ComparisonsSwapped(path, defaultRange) ==
    LET isDateOrDateTime == isDateTimeField(path) \/ isDateField(path)
        stats == IF datasetStats = None THEN <<>> ELSE datasetStats[1]
        bounds == ReduceBounds(stats, 1, NullRange, path, isDateOrDateTime)
    IN  IF \A i \in 1..Len(bounds) : bounds[i] = Null THEN bounds
        ELSE IF defaultRange # NoRange
             THEN << IF Gt(defaultRange[1], bounds[1])
                     THEN defaultRange[1] ELSE bounds[1],
                     IF Lt(defaultRange[2], bounds[2])
                     THEN defaultRange[2] ELSE bounds[2] >>
             ELSE <<bounds[1], bounds[2]>>

\* boundsAtom falling back to the override when the statistics give no bounds
boundsAtom_OverrideWhenNoData(path, defaultRange) ==
    LET isDateOrDateTime == isDateTimeField(path) \/ isDateField(path)
        stats == IF datasetStats = None THEN <<>> ELSE datasetStats[1]
        bounds == ReduceBounds(stats, 1, NullRange, path, isDateOrDateTime)
    IN  IF \A i \in 1..Len(bounds) : bounds[i] = Null
        THEN IF defaultRange # NoRange THEN defaultRange ELSE bounds
        ELSE IF defaultRange # NoRange
             THEN << IF Lt(defaultRange[1], bounds[1])
                     THEN defaultRange[1] ELSE bounds[1],
                     IF Gt(defaultRange[2], bounds[2])
                     THEN defaultRange[2] ELSE bounds[2] >>
             ELSE <<bounds[1], bounds[2]>>

boundsAtom(path, defaultRange) ==
    LET isDateOrDateTime == isDateTimeField(path) \/ isDateField(path)
        stats == IF datasetStats = None THEN <<>> ELSE datasetStats[1]
        bounds == ReduceBounds(stats, 1, NullRange, path, isDateOrDateTime)
    IN  IF \A i \in 1..Len(bounds) : bounds[i] = Null THEN bounds
        ELSE IF defaultRange # NoRange
             THEN << IF Lt(defaultRange[1], bounds[1])
                     THEN defaultRange[1] ELSE bounds[1],
                     IF Gt(defaultRange[2], bounds[2])
                     THEN defaultRange[2] ELSE bounds[2] >>
             ELSE <<bounds[1], bounds[2]>>

\* meetsDefault with some() in place of every()
meetsDefault_Some(filter, bounds) ==
    /\ \E i \in 1..Len(filter.range) : filter.range[i] = bounds[i]
    /\ filter.none = True

meetsDefault(filter, bounds) ==
    /\ \A i \in 1..Len(filter.range) : filter.range[i] = bounds[i]
    /\ filter.none = True

\* getFilter defaulting none to false when no record is stored
getFilter_DefaultNoneFalse(modal, path, defaultRange) ==
    LET bounds == boundsAtom(path, defaultRange)
        stored == filterStage[<<path, modal>>]
        result == IF stored = None
                  THEN [_CLS |-> "numeric", range |-> bounds, none |-> False]
                  ELSE stored[1]
    IN  IF ~meetsDefault([result EXCEPT !.none = True], bounds)
        THEN [result EXCEPT !.none = False]
        ELSE result

getFilter(modal, path, defaultRange) ==
    LET bounds == boundsAtom(path, defaultRange)
        stored == filterStage[<<path, modal>>]
        result == IF stored = None
                  THEN [_CLS |-> "numeric", range |-> bounds, none |-> True]
                  ELSE stored[1]
    IN  IF ~meetsDefault([result EXCEPT !.none = True], bounds)
        THEN [result EXCEPT !.none = False]
        ELSE result

\* setFilter persisting the merged record as it is, none included
setFilter_KeepsNone(modal, path, key, value, defaultRange) ==
    LET bounds == boundsAtom(path, defaultRange)
        cur == getFilter(modal, path, defaultRange)
        filter == IF key = "range"
                  THEN [cur EXCEPT !.range = value, !._CLS = "numeric"]
                  ELSE [cur EXCEPT !.none = value, !._CLS = "numeric"]
        check == [filter EXCEPT
                    !.none = IF key = "none" THEN Boolean(value) ELSE True]
    IN  IF meetsDefault(check, bounds) THEN None ELSE Some(filter)

\* setFilter comparing the merged record without presetting none to true
setFilter_ChecksMerged(modal, path, key, value, defaultRange) ==
    LET bounds == boundsAtom(path, defaultRange)
        cur == getFilter(modal, path, defaultRange)
        filter == IF key = "range"
                  THEN [cur EXCEPT !.range = value, !._CLS = "numeric"]
                  ELSE [cur EXCEPT !.none = value, !._CLS = "numeric"]
        check == [filter EXCEPT
                    !.none = IF key = "none" THEN Boolean(value) ELSE @]
    IN  IF meetsDefault(check, bounds)
        THEN None
        ELSE Some([filter EXCEPT !.none = False])

\* setFilter clearing the record on any truthy none, whatever the range
setFilter_NoneClears(modal, path, key, value, defaultRange) ==
    LET bounds == boundsAtom(path, defaultRange)
        cur == getFilter(modal, path, defaultRange)
        filter == IF key = "range"
                  THEN [cur EXCEPT !.range = value, !._CLS = "numeric"]
                  ELSE [cur EXCEPT !.none = value, !._CLS = "numeric"]
        check == [filter EXCEPT
                    !.none = IF key = "none" THEN Boolean(value) ELSE True]
    IN  IF meetsDefault(check, bounds) \/ (key = "none" /\ Truthy(value))
        THEN None
        ELSE Some([filter EXCEPT !.none = False])

\* setFilter keeping the range it read when the range written is the bounds
setFilter_KeepsReadRange(modal, path, key, value, defaultRange) ==
    LET bounds == boundsAtom(path, defaultRange)
        cur == getFilter(modal, path, defaultRange)
        filter == IF key = "range" /\ value # bounds
                  THEN [cur EXCEPT !.range = value, !._CLS = "numeric"]
                  ELSE IF key = "range"
                  THEN [cur EXCEPT !._CLS = "numeric"]
                  ELSE [cur EXCEPT !.none = value, !._CLS = "numeric"]
        check == [filter EXCEPT
                    !.none = IF key = "none" THEN Boolean(value) ELSE True]
    IN  IF meetsDefault(check, bounds)
        THEN None
        ELSE Some([filter EXCEPT !.none = False])

\* setFilter without the branch that clears the record
setFilter_NeverClears(modal, path, key, value, defaultRange) ==
    LET cur == getFilter(modal, path, defaultRange)
        filter == IF key = "range"
                  THEN [cur EXCEPT !.range = value, !._CLS = "numeric"]
                  ELSE [cur EXCEPT !.none = value, !._CLS = "numeric"]
    IN  Some([filter EXCEPT !.none = False])

\* the value setFilter hands to set(filterStage({modal, path}), ...)
setFilter(modal, path, key, value, defaultRange) ==
    LET bounds == boundsAtom(path, defaultRange)
        cur == getFilter(modal, path, defaultRange)
        filter == IF key = "range"
                  THEN [cur EXCEPT !.range = value, !._CLS = "numeric"]
                  ELSE [cur EXCEPT !.none = value, !._CLS = "numeric"]
        check == [filter EXCEPT
                    !.none = IF key = "none" THEN Boolean(value) ELSE True]
    IN  IF meetsDefault(check, bounds)
        THEN None
        ELSE Some([filter EXCEPT !.none = False])

rangeAtom(defaultRange, modal, path) == getFilter(modal, path, defaultRange).range

noneAtom(defaultRange, modal, path) == getFilter(modal, path, defaultRange).none

\* fieldIsFiltered deciding on the range comparison alone
fieldIsFiltered_RangeOnly(path, defaultRange, modal) ==
    LET range == rangeAtom(defaultRange, modal, path)
        bounds == boundsAtom(path, defaultRange)
    IN  /\ \E i \in 1..Len(bounds) :
              range[i] # bounds[i] /\ bounds[i] # Null /\ range[i] # Null
        /\ bounds[1] # bounds[2]

\* fieldIsFiltered with the negation of none dropped
fieldIsFiltered_NoneNotNegated(path, defaultRange, modal) ==
    LET none == noneAtom(defaultRange, modal, path)
        range == rangeAtom(defaultRange, modal, path)
        bounds == boundsAtom(path, defaultRange)
    IN  \/ Truthy(none)
        \/ /\ \E i \in 1..Len(bounds) :
                 range[i] # bounds[i] /\ bounds[i] # Null /\ range[i] # Null
           /\ bounds[1] # bounds[2]

fieldIsFiltered(path, defaultRange, modal) ==
    LET none == noneAtom(defaultRange, modal, path)
        range == rangeAtom(defaultRange, modal, path)
        bounds == boundsAtom(path, defaultRange)
    IN  \/ ~Truthy(none)
        \/ /\ \E i \in 1..Len(bounds) :
                 range[i] # bounds[i] /\ bounds[i] # Null /\ range[i] # Null
           /\ bounds[1] # bounds[2]

(***************************************************************************)
(* Operations.                                                             *)
(***************************************************************************)
\* a log entry: the selector, its parameters, the range or none value written
\* or returned, and for a write the filter setFilter read before writing
Op(op, path, modal, defaultRange, range, none, read) ==
    [op |-> op, path |-> path, modal |-> modal, defaultRange |-> defaultRange,
     range |-> range, none |-> none, read |-> read]

Init ==
    /\ datasetStats = None
    /\ filterStage = [k \in Keys |-> None]
    /\ lastOp = Op("init", "", FALSE, NoRange, NoRange, Undefined, None)
    /\ noneFalseWritten = {}
    /\ recording = FALSE

\* the statistics selector is refreshed by the server
SetDatasetStats(s) ==
    /\ datasetStats' = s
    /\ lastOp' = Op("datasetStats", "", FALSE, NoRange, NoRange, Undefined, None)
    /\ UNCHANGED <<filterStage, noneFalseWritten, recording>>

RangeAtomSet(path, modal, defaultRange, range) ==
    /\ filterStage' = [filterStage EXCEPT ![<<path, modal>>] =
                          setFilter(modal, path, "range", range, defaultRange)]
    /\ lastOp' = Op("rangeAtom.set", path, modal, defaultRange, range, Undefined,
                    Some(getFilter(modal, path, defaultRange)))
    /\ UNCHANGED <<datasetStats, noneFalseWritten, recording>>

NoneAtomSet(path, modal, defaultRange, value) ==
    /\ filterStage' = [filterStage EXCEPT ![<<path, modal>>] =
                          setFilter(modal, path, "none", value, defaultRange)]
    /\ lastOp' = Op("noneAtom.set", path, modal, defaultRange, NoRange, value,
                    Some(getFilter(modal, path, defaultRange)))
    /\ noneFalseWritten' = IF recording /\ value = False
                           THEN noneFalseWritten \cup {<<path, modal>>}
                           ELSE noneFalseWritten
    /\ UNCHANGED <<datasetStats, recording>>

BoundsAtomGet(path, defaultRange) ==
    /\ lastOp' = Op("boundsAtom.get", path, FALSE, defaultRange,
                    boundsAtom(path, defaultRange), Undefined, None)
    /\ UNCHANGED <<datasetStats, filterStage, noneFalseWritten, recording>>

\* a rangeAtom getter that also drops a stored record whose range is the bounds
RangeAtomGet_Normalizing(path, modal, defaultRange) ==
    /\ lastOp' = Op("rangeAtom.get", path, modal, defaultRange,
                    rangeAtom(defaultRange, modal, path), Undefined, None)
    /\ filterStage' =
          [filterStage EXCEPT ![<<path, modal>>] =
              IF rangeAtom(defaultRange, modal, path) = boundsAtom(path, defaultRange)
              THEN None ELSE @]
    /\ UNCHANGED <<datasetStats, noneFalseWritten, recording>>

RangeAtomGet(path, modal, defaultRange) ==
    /\ lastOp' = Op("rangeAtom.get", path, modal, defaultRange,
                    rangeAtom(defaultRange, modal, path), Undefined, None)
    /\ UNCHANGED <<datasetStats, filterStage, noneFalseWritten, recording>>

NoneAtomGet(path, modal, defaultRange) ==
    /\ lastOp' = Op("noneAtom.get", path, modal, defaultRange, NoRange,
                    noneAtom(defaultRange, modal, path), None)
    /\ UNCHANGED <<datasetStats, filterStage, noneFalseWritten, recording>>

FieldIsFilteredGet(path, modal, defaultRange) ==
    /\ lastOp' = Op("fieldIsFiltered.get", path, modal, defaultRange, NoRange,
                    IF fieldIsFiltered(path, defaultRange, modal)
                    THEN True ELSE False, None)
    /\ UNCHANGED <<datasetStats, filterStage, noneFalseWritten, recording>>

Next ==
    \/ \E s \in StatsChoices : SetDatasetStats(s)
    \/ \E k \in Keys, d \in DefaultRanges, r \in Ranges :
          RangeAtomSet(k[1], k[2], d, r)
    \/ \E k \in Keys, d \in DefaultRanges, v \in NoneValues :
          NoneAtomSet(k[1], k[2], d, v)
    \/ \E p \in FilterPaths, d \in DefaultRanges : BoundsAtomGet(p, d)
    \/ \E k \in Keys, d \in DefaultRanges :
          RangeAtomGet(k[1], k[2], d)
    \/ \E k \in Keys, d \in DefaultRanges :
          NoneAtomGet(k[1], k[2], d)
    \/ \E k \in Keys, d \in DefaultRanges :
          FieldIsFilteredGet(k[1], k[2], d)

Spec == Init /\ [][Next]_vars

\* the same operations, with the history of noneAtom writes kept
InitHistory ==
    /\ datasetStats = None
    /\ filterStage = [k \in Keys |-> None]
    /\ lastOp = Op("init", "", FALSE, NoRange, NoRange, Undefined, None)
    /\ noneFalseWritten = {}
    /\ recording = TRUE

SpecHistory == InitHistory /\ [][Next]_vars

(***************************************************************************)
(* Bounds resolution alone: boundsAtom evaluated for every field path and  *)
(* every defaultRange over every value of the statistics.                  *)
(***************************************************************************)
InitBounds ==
    /\ datasetStats \in StatsInputs
    /\ filterStage = [k \in Keys |-> None]
    /\ lastOp = Op("init", "", FALSE, NoRange, NoRange, Undefined, None)
    /\ noneFalseWritten = {}
    /\ recording = FALSE

NextBounds == \E p \in Paths, d \in DefaultRangeInputs : BoundsAtomGet(p, d)

SpecBounds == InitBounds /\ [][NextBounds]_vars

(***************************************************************************)
(* Field types: the type predicates evaluated for every field name, and    *)
(* boundsAtom evaluated over the bounds of fields of every type.           *)
(***************************************************************************)
Answer(b) == IF b THEN True ELSE False

IsDateTimeFieldGet(name) ==
    /\ lastOp' = Op("isDateTimeField.get", name, FALSE, NoRange, NoRange,
                    Answer(isDateTimeField(name)), None)
    /\ UNCHANGED <<datasetStats, filterStage, noneFalseWritten, recording>>

IsDateFieldGet(name) ==
    /\ lastOp' = Op("isDateField.get", name, FALSE, NoRange, NoRange,
                    Answer(isDateField(name)), None)
    /\ UNCHANGED <<datasetStats, filterStage, noneFalseWritten, recording>>

IsNumericFieldGet(name) ==
    /\ lastOp' = Op("isNumericField.get", name, FALSE, NoRange, NoRange,
                    Answer(isNumericField(name)), None)
    /\ UNCHANGED <<datasetStats, filterStage, noneFalseWritten, recording>>

IsSupportFieldGet(name) ==
    /\ lastOp' = Op("isSupportField.get", name, FALSE, NoRange, NoRange,
                    Answer(isSupportField(name)), None)
    /\ UNCHANGED <<datasetStats, filterStage, noneFalseWritten, recording>>

IsIntFieldGet(name) ==
    /\ lastOp' = Op("isIntField.get", name, FALSE, NoRange, NoRange,
                    Answer(isIntField(name)), None)
    /\ UNCHANGED <<datasetStats, filterStage, noneFalseWritten, recording>>

InitTypes ==
    /\ datasetStats \in TypedStatsInputs
    /\ filterStage = [k \in Keys |-> None]
    /\ lastOp = Op("init", "", FALSE, NoRange, NoRange, Undefined, None)
    /\ noneFalseWritten = {}
    /\ recording = FALSE

NextTypes ==
    \/ \E p \in Paths, d \in DefaultRanges : BoundsAtomGet(p, d)
    \/ \E n \in FieldNames : IsDateTimeFieldGet(n)
    \/ \E n \in FieldNames : IsDateFieldGet(n)
    \/ \E n \in FieldNames : IsNumericFieldGet(n)
    \/ \E n \in FieldNames : IsSupportFieldGet(n)
    \/ \E n \in FieldNames : IsIntFieldGet(n)

SpecTypes == InitTypes /\ [][NextTypes]_vars

(***************************************************************************)
(* Properties.                                                             *)
(***************************************************************************)
IsWrite(op) == op.op \in {"rangeAtom.set", "noneAtom.set"}
KeyOf(op) == <<op.path, op.modal>>
NonNull(r) == r[1] # Null /\ r[2] # Null
NumericRecord(range) == [_CLS |-> "numeric", range |-> range, none |-> False]

\* C1: no key of the store holds a default-equivalent record, i.e. a record
\* whose range equals the current default bounds at both positions and whose
\* none flag is true, whatever writes and statistics updates have happened.
C1_NoDefaultEquivalentRecord ==
    \A k \in Keys, d \in DefaultRanges :
        filterStage[k] # None =>
            LET rec == filterStage[k][1]
                bounds == boundsAtom(k[1], d)
            IN  ~(rec.range[1] = bounds[1] /\ rec.range[2] = bounds[2]
                  /\ rec.none = True)

\* a record stored with a narrowed range whose range the default bounds have
\* since come to equal: it is kept, with none = false
C1_Witness ==
    \E k \in Keys :
        /\ filterStage[k] # None
        /\ NonNull(boundsAtom(k[1], NoRange))
        /\ filterStage[k][1].range = boundsAtom(k[1], NoRange)
        /\ lastOp.op = "datasetStats"

\* C2 as stated: after a write the record is absent exactly when the filter
\* read before the write, with the edited key replaced by the new value (none
\* coerced to boolean when it is the edited key), equals the default; in every
\* other case it is that merged record with none = false.
C2_MergedRecordDecides ==
    IsWrite(lastOp) =>
        LET read == lastOp.read[1]
            bounds == boundsAtom(lastOp.path, lastOp.defaultRange)
            range == IF lastOp.op = "rangeAtom.set"
                     THEN lastOp.range ELSE read.range
            none == IF lastOp.op = "noneAtom.set"
                    THEN Boolean(lastOp.none) ELSE read.none
        IN  filterStage[KeyOf(lastOp)] =
                IF range = bounds /\ none = True
                THEN None
                ELSE Some(NumericRecord(range))

\* C2, amended: the none flag of the compared record is true when range is
\* the edited key (the flag read before the write is not used) and the new
\* value coerced to boolean when none is the edited key; the record is absent
\* exactly when that record equals the default, and otherwise it is the merged
\* record with none = false and kind-tag "numeric".
C2_CheckedRecordDecides ==
    IsWrite(lastOp) =>
        LET read == lastOp.read[1]
            bounds == boundsAtom(lastOp.path, lastOp.defaultRange)
            range == IF lastOp.op = "rangeAtom.set"
                     THEN lastOp.range ELSE read.range
            none == IF lastOp.op = "noneAtom.set"
                    THEN Boolean(lastOp.none) ELSE True
        IN  filterStage[KeyOf(lastOp)] =
                IF range = bounds /\ none = True
                THEN None
                ELSE Some(NumericRecord(range))

\* a range write of the default bounds has cleared a key whose none flag had
\* been written false
C2_Witness ==
    /\ lastOp.op = "rangeAtom.set"
    /\ NonNull(lastOp.range)
    /\ lastOp.range = boundsAtom(lastOp.path, lastOp.defaultRange)
    /\ lastOp.read[1].none = False
    /\ lastOp.read[1].range = lastOp.range
    /\ filterStage[KeyOf(lastOp)] = None

\* C3: a write that reproduces the default (range = the default bounds, or
\* none = true while the range read equals the default bounds) leaves the key
\* absent, and the reads that follow give range = bounds, none = true and
\* fieldIsFiltered = false.
C3_DefaultWriteCollapses ==
    LET k == KeyOf(lastOp)
        d == lastOp.defaultRange
    IN  ( \/ /\ lastOp.op = "rangeAtom.set"
             /\ lastOp.range = boundsAtom(k[1], d)
          \/ /\ lastOp.op = "noneAtom.set"
             /\ lastOp.none = True
             /\ lastOp.read[1].range = boundsAtom(k[1], d) ) =>
            /\ filterStage[k] = None
            /\ rangeAtom(d, k[2], k[1]) = boundsAtom(k[1], d)
            /\ noneAtom(d, k[2], k[1]) = True
            /\ ~fieldIsFiltered(k[1], d, k[2])

\* none = true written over a stored record whose range is the default bounds
C3_Witness ==
    /\ lastOp.op = "noneAtom.set"
    /\ lastOp.none = True
    /\ NonNull(boundsAtom(lastOp.path, lastOp.defaultRange))
    /\ lastOp.read[1].range = boundsAtom(lastOp.path, lastOp.defaultRange)
    /\ lastOp.read[1].none = False
    /\ filterStage[KeyOf(lastOp)] = None
    /\ ~fieldIsFiltered(lastOp.path, lastOp.defaultRange, lastOp.modal)

\* C4: after a rangeAtom write of a range that differs from non-null default
\* bounds in some position, the stored record is {range: r, none: false},
\* rangeAtom reads r, noneAtom reads false and fieldIsFiltered reads true.
C4_NarrowedRangeRoundTrip ==
    \A k \in Keys, d \in DefaultRanges :
        ( /\ lastOp.op = "rangeAtom.set"
          /\ KeyOf(lastOp) = k
          /\ lastOp.defaultRange = d
          /\ NonNull(boundsAtom(k[1], d))
          /\ \E i \in 1..2 : lastOp.range[i] # boundsAtom(k[1], d)[i] ) =>
            /\ filterStage[k] = Some(NumericRecord(lastOp.range))
            /\ rangeAtom(d, k[2], k[1]) = lastOp.range
            /\ noneAtom(d, k[2], k[1]) = False
            /\ fieldIsFiltered(k[1], d, k[2])

\* a range sharing one end with the widened bounds has been written
C4_Witness ==
    /\ lastOp.op = "rangeAtom.set"
    /\ lastOp.defaultRange # NoRange
    /\ NonNull(lastOp.range)
    /\ LET bounds == boundsAtom(lastOp.path, lastOp.defaultRange)
       IN  /\ NonNull(bounds)
           /\ bounds # boundsAtom(lastOp.path, NoRange)
           /\ lastOp.range[1] = bounds[1]
           /\ lastOp.range[2] # bounds[2]
    /\ filterStage[KeyOf(lastOp)] = Some(NumericRecord(lastOp.range))

\* C5: when no record is stored for a key, whatever the resolved bounds
\* (null, degenerate, widened by an override), rangeAtom returns the resolved
\* bounds, noneAtom returns true and fieldIsFiltered returns false.
C5_AbsentRecordReadsDefaults ==
    \A k \in Keys, d \in DefaultRanges :
        filterStage[k] = None =>
            /\ rangeAtom(d, k[2], k[1]) = boundsAtom(k[1], d)
            /\ noneAtom(d, k[2], k[1]) = True
            /\ ~fieldIsFiltered(k[1], d, k[2])
            /\ (lastOp.op = "rangeAtom.get" /\ KeyOf(lastOp) = k
                /\ lastOp.defaultRange = d) => lastOp.range = boundsAtom(k[1], d)
            /\ (lastOp.op = "noneAtom.get" /\ KeyOf(lastOp) = k) =>
                   lastOp.none = True
            /\ (lastOp.op = "fieldIsFiltered.get" /\ KeyOf(lastOp) = k) =>
                   lastOp.none = False

\* rangeAtom evaluated with an override that widens the bounds, nothing stored
C5_Witness ==
    /\ lastOp.op = "rangeAtom.get"
    /\ filterStage[KeyOf(lastOp)] = None
    /\ lastOp.defaultRange # NoRange
    /\ NonNull(lastOp.range)
    /\ lastOp.range # boundsAtom(lastOp.path, NoRange)
    /\ lastOp.range = boundsAtom(lastOp.path, lastOp.defaultRange)

\* C6: for every key, fieldIsFiltered is true if and only if a record is
\* stored for the key.
C6_FilteredIffStored ==
    \A k \in Keys, d \in DefaultRanges :
        fieldIsFiltered(k[1], d, k[2]) <=> filterStage[k] # None

\* none = false written at the default range: a record whose range equals
\* the bounds is stored and the field is filtered
C6_Witness ==
    /\ lastOp.op = "noneAtom.set"
    /\ lastOp.none = False
    /\ filterStage[KeyOf(lastOp)] # None
    /\ NonNull(boundsAtom(lastOp.path, lastOp.defaultRange))
    /\ filterStage[KeyOf(lastOp)][1].range =
           boundsAtom(lastOp.path, lastOp.defaultRange)
    /\ fieldIsFiltered(lastOp.path, lastOp.defaultRange, lastOp.modal)

\* C7: evaluating boundsAtom, rangeAtom, noneAtom or fieldIsFiltered leaves
\* every stored record (and the statistics) unchanged; a stored record changes
\* only in a rangeAtom or noneAtom write, and then only the record of the key
\* written.
C7_ReadsNeverMutate ==
    [][ /\ filterStage' # filterStage =>
              /\ IsWrite(lastOp')
              /\ \A k \in Keys :
                    k # KeyOf(lastOp') => filterStage'[k] = filterStage[k]
        /\ lastOp'.op \in {"boundsAtom.get", "rangeAtom.get", "noneAtom.get",
                           "fieldIsFiltered.get"} =>
              filterStage' = filterStage /\ datasetStats' = datasetStats
      ]_vars

\* rangeAtom evaluated over a stored record whose range equals the bounds
C7_Witness ==
    /\ lastOp.op = "rangeAtom.get"
    /\ filterStage[KeyOf(lastOp)] # None
    /\ NonNull(lastOp.range)
    /\ lastOp.range = boundsAtom(lastOp.path, lastOp.defaultRange)
    /\ filterStage[KeyOf(lastOp)][1].range = lastOp.range

\* C8 (under SpecHistory): with degenerate default bounds (min = max),
\* fieldIsFiltered is true only if noneAtom was written false for the key, and
\* it is false whenever noneAtom reads true, whatever the range.
C8_DegenerateBoundsIgnoreRange ==
    \A k \in Keys, d \in DefaultRanges :
        LET bounds == boundsAtom(k[1], d)
        IN  (NonNull(bounds) /\ bounds[1] = bounds[2]) =>
                /\ fieldIsFiltered(k[1], d, k[2]) => k \in noneFalseWritten
                /\ noneAtom(d, k[2], k[1]) = True =>
                       ~fieldIsFiltered(k[1], d, k[2])

(***************************************************************************)
(* Properties of bounds resolution, under SpecBounds.                      *)
(***************************************************************************)
\* positions of the statistics entries matching (path, bounds-kind)
MatchingEntries(path) ==
    IF datasetStats = None THEN {}
    ELSE {i \in 1..Len(datasetStats[1]) :
            /\ datasetStats[1][i].name = path
            /\ datasetStats[1][i]._CLS = AGGS_BOUNDS}

Min(a, b) == IF a < b THEN a ELSE b
Max(a, b) == IF a > b THEN a ELSE b

\* C9: for a path with no statistics entry matching (path, bounds-kind),
\* the statistics being absent or empty included, boundsAtom returns
\* [null, null], with or without a default-range override.
C9_NoEntryNullBounds ==
    /\ \A p \in Paths, d \in DefaultRangeInputs :
          MatchingEntries(p) = {} => boundsAtom(p, d) = NullRange
    /\ (lastOp.op = "boundsAtom.get" /\ MatchingEntries(lastOp.path) = {}) =>
          lastOp.range = NullRange

\* boundsAtom evaluated with an override for a field without a bounds entry,
\* while another field has one
C9_Witness ==
    /\ lastOp.op = "boundsAtom.get"
    /\ lastOp.defaultRange # NoRange
    /\ MatchingEntries(lastOp.path) = {}
    /\ \E p \in Paths : MatchingEntries(p) # {} /\ NonNull(boundsAtom(p, NoRange))
    /\ lastOp.range = NullRange

\* C10 as stated: with a bounds entry [dmin, dmax] for the path and an
\* override [omin, omax], boundsAtom returns [min(omin, dmin), max(omax, dmax)]
\* for every combination of values, so the resolved interval contains the
\* override interval and the data interval.
C10_OverrideWidens ==
    (lastOp.op = "boundsAtom.get" /\ lastOp.defaultRange # NoRange) =>
        \A i \in MatchingEntries(lastOp.path) :
            LET data == datasetStats[1][i].result
                d == lastOp.defaultRange
                res == lastOp.range
            IN  /\ res[1].t = "number" /\ res[2].t = "number"
                /\ res[1].n <= d[1].n /\ res[2].n >= d[2].n
                /\ data[1] # Null => res[1].n = Min(d[1].n, data[1].n)
                /\ data[2] # Null => res[2].n = Max(d[2].n, data[2].n)

\* C10, amended: the same, when the entry's dmin and dmax are not null (an
\* entry whose result is [null, null] resolves to [null, null] whatever the
\* override).
C10_OverrideWidensNonNullData ==
    /\ \A p \in Paths, d \in DefaultRangeInputs \ {NoRange} :
          \A i \in MatchingEntries(p) :
              LET data == datasetStats[1][i].result
                  res == boundsAtom(p, d)
              IN  NonNull(data) =>
                      /\ res = <<Num(Min(d[1].n, data[1].n)),
                                 Num(Max(d[2].n, data[2].n))>>
                      /\ res[1].n <= d[1].n /\ res[1].n <= data[1].n
                      /\ res[2].n >= d[2].n /\ res[2].n >= data[2].n
    /\ ( /\ lastOp.op = "boundsAtom.get"
         /\ lastOp.defaultRange # NoRange
         /\ \E i \in MatchingEntries(lastOp.path) :
               NonNull(datasetStats[1][i].result) ) =>
           \E i \in MatchingEntries(lastOp.path) :
               lastOp.range =
                   <<Num(Min(lastOp.defaultRange[1].n,
                             datasetStats[1][i].result[1].n)),
                     Num(Max(lastOp.defaultRange[2].n,
                             datasetStats[1][i].result[2].n))>>

\* boundsAtom evaluated for the date-time field with an override wider than
\* the data at the lower end and narrower at the upper end
C10_Witness ==
    /\ lastOp.op = "boundsAtom.get"
    /\ lastOp.path = "created"
    /\ lastOp.defaultRange # NoRange
    /\ \E i \in MatchingEntries("created") :
          LET data == datasetStats[1][i].result
          IN  /\ NonNull(data)
              /\ lastOp.defaultRange[1].n < data[1].n
              /\ lastOp.defaultRange[2].n < data[2].n
              /\ lastOp.range = <<lastOp.defaultRange[1], Num(data[2].n)>>

(***************************************************************************)
(* Missing upstream data.                                                  *)
(***************************************************************************)
\* a selector result that is a range: a pair of nulls or numbers
IsRangeValue(r) ==
    /\ Len(r) = 2
    /\ \A i \in 1..2 : r[i].t \in {"null", "number"}

\* C11 as stated: when the statistics are absent or hold no bounds entry for
\* the path, then in every state of the filter store the four selectors
\* return a value, the bounds are [null, null] and fieldIsFiltered is false.
C11_MissingStatsUnfiltered ==
    \A k \in Keys, d \in DefaultRanges :
        MatchingEntries(k[1]) = {} =>
            /\ boundsAtom(k[1], d) = NullRange
            /\ IsRangeValue(rangeAtom(d, k[2], k[1]))
            /\ noneAtom(d, k[2], k[1]) \in {True, False}
            /\ ~fieldIsFiltered(k[1], d, k[2])

\* C11, amended: when the statistics are absent or hold no bounds entry for
\* the path, the four selectors return a value and the bounds are
\* [null, null] in every state of the filter store; fieldIsFiltered is false
\* when no record is stored for the key, and true when one is (a range or
\* none = false written before or while the statistics are missing).
C11_MissingStatsDefined ==
    \A k \in Keys, d \in DefaultRanges :
        MatchingEntries(k[1]) = {} =>
            /\ boundsAtom(k[1], d) = NullRange
            /\ IsRangeValue(rangeAtom(d, k[2], k[1]))
            /\ noneAtom(d, k[2], k[1]) \in {True, False}
            /\ fieldIsFiltered(k[1], d, k[2]) \in BOOLEAN
            /\ filterStage[k] = None => ~fieldIsFiltered(k[1], d, k[2])
            /\ filterStage[k] # None => fieldIsFiltered(k[1], d, k[2])

\* fieldIsFiltered evaluated with an override while the statistics are loaded
\* but empty: false for the key without a record, the other key has one
C11_Witness ==
    /\ lastOp.op = "fieldIsFiltered.get"
    /\ lastOp.defaultRange # NoRange
    /\ datasetStats = Some(<<>>)
    /\ filterStage[KeyOf(lastOp)] = None
    /\ lastOp.none = False
    /\ \E k \in Keys :
          filterStage[k] # None /\ fieldIsFiltered(k[1], lastOp.defaultRange, k[2])

\* C14: in every state, fieldIsFiltered equals the negation of noneAtom for
\* the same path, modal flag and override; the returned values agree too.
C14_FilteredIsNotNone ==
    /\ \A k \in Keys, d \in DefaultRanges :
          fieldIsFiltered(k[1], d, k[2]) <=> noneAtom(d, k[2], k[1]) = False
    /\ lastOp.op = "fieldIsFiltered.get" =>
          lastOp.none # noneAtom(lastOp.defaultRange, lastOp.modal, lastOp.path)

\* fieldIsFiltered read true for a key whose range is narrowed inside non-
\* degenerate bounds, while the other key reads unfiltered with none = true
C14_Witness ==
    /\ lastOp.op = "fieldIsFiltered.get"
    /\ lastOp.none = True
    /\ noneAtom(lastOp.defaultRange, lastOp.modal, lastOp.path) = False
    /\ LET bounds == boundsAtom(lastOp.path, lastOp.defaultRange)
       IN  /\ NonNull(bounds)
           /\ bounds[1] # bounds[2]
           /\ rangeAtom(lastOp.defaultRange, lastOp.modal, lastOp.path) # bounds
    /\ \E k \in Keys :
          /\ noneAtom(lastOp.defaultRange, k[2], k[1]) = True
          /\ ~fieldIsFiltered(k[1], lastOp.defaultRange, k[2])

\* C15: a noneAtom write, of any value, made while the current range differs
\* from the default bounds leaves the stored record {range: the current
\* range, none: false}, identical to the record stored before the write, and
\* noneAtom reads false afterwards.
C15_NoneWriteKeepsNarrowedRecord ==
    [][ \A k \in Keys, d \in DefaultRanges :
            LET range == rangeAtom(d, k[2], k[1])
            IN  ( /\ lastOp'.op = "noneAtom.set"
                  /\ KeyOf(lastOp') = k
                  /\ lastOp'.defaultRange = d
                  /\ range # boundsAtom(k[1], d) ) =>
                    /\ filterStage'[k] = Some(NumericRecord(range))
                    /\ filterStage'[k] = filterStage[k]
                    /\ lastOp'.read = filterStage[k]
                    /\ noneAtom(d, k[2], k[1])' = False ]_vars

\* none = true written over a record whose range is narrowed: the record is
\* still there and noneAtom reads false
C15_Witness ==
    /\ lastOp.op = "noneAtom.set"
    /\ lastOp.none = True
    /\ lastOp.read[1].range # boundsAtom(lastOp.path, lastOp.defaultRange)
    /\ filterStage[KeyOf(lastOp)] = Some(lastOp.read[1])
    /\ noneAtom(lastOp.defaultRange, lastOp.modal, lastOp.path) = False

\* C16: after a rangeAtom write of r the store entry of the key depends only
\* on r and the current bounds: absent when r equals the bounds, otherwise
\* {range: r, none: false}, whatever was stored or read before; so the second
\* of two range writes decides alone and a repeated write changes nothing.
C16_RangeWriteDecidesAlone ==
    /\ lastOp.op = "rangeAtom.set" =>
          filterStage[KeyOf(lastOp)] =
              IF lastOp.range = boundsAtom(lastOp.path, lastOp.defaultRange)
              THEN None
              ELSE Some(NumericRecord(lastOp.range))
    /\ \A k \in Keys, d \in DefaultRanges, r \in Ranges :
          LET first == setFilter(k[2], k[1], "range", r, d)
          IN  first = IF r = boundsAtom(k[1], d)
                      THEN None ELSE Some(NumericRecord(r))

\* a range written over a stored record that held another narrowed range
C16_Witness ==
    /\ lastOp.op = "rangeAtom.set"
    /\ lastOp.range # boundsAtom(lastOp.path, lastOp.defaultRange)
    /\ lastOp.read[1].range # boundsAtom(lastOp.path, lastOp.defaultRange)
    /\ lastOp.read[1].range # lastOp.range
    /\ NonNull(lastOp.read[1].range)
    /\ filterStage[KeyOf(lastOp)] = Some(NumericRecord(lastOp.range))

(***************************************************************************)
(* Properties of the field types, under SpecTypes.                         *)
(***************************************************************************)
\* the field is a date or date-time field, directly or as a list's element
HoldsDates(path) ==
    LET type == Lookup(primitivesMap, path)
        subtype == Lookup(primitivesSubfieldMap, path)
    IN  \/ type \in {DATE_FIELD, DATE_TIME_FIELD}
        \/ type = LIST_FIELD /\ subtype \in {DATE_FIELD, DATE_TIME_FIELD}

\* the date/time payload of a bound (a null bound has none)
Payload(v) == IF v.t = "object" THEN Num(v.n) ELSE v

\* C12: for a date or date-time field (directly, or as the element type of a
\* list field) with a bounds entry, boundsAtom returns at each position the
\* date/time payload of the wrapped value, never the wrapper; for a field of
\* any other type it returns the entry's result values unchanged.
C12_DateBoundsUnwrapped ==
    /\ \A p \in Paths :
          \A i \in MatchingEntries(p) :
              LET data == datasetStats[1][i].result
                  res == boundsAtom(p, NoRange)
              IN  /\ HoldsDates(p) =>
                         \A j \in 1..2 : res[j] = Payload(data[j])
                                         /\ res[j].t # "object"
                  /\ ~HoldsDates(p) => res = data
                  /\ \A d \in DefaultRanges, j \in 1..2 :
                         HoldsDates(p) => boundsAtom(p, d)[j].t # "object"
    /\ ( /\ lastOp.op = "boundsAtom.get"
         /\ lastOp.defaultRange = NoRange
         /\ HoldsDates(lastOp.path) ) =>
           \A i \in MatchingEntries(lastOp.path), j \in 1..2 :
               lastOp.range[j] = Payload(datasetStats[1][i].result[j])

\* boundsAtom evaluated for the list field of date-times, whose bounds entry
\* holds two wrapped values
C12_Witness ==
    /\ lastOp.op = "boundsAtom.get"
    /\ lastOp.path = "stamps"
    /\ lastOp.defaultRange = NoRange
    /\ \E i \in MatchingEntries("stamps") :
          /\ datasetStats[1][i].result[1].t = "object"
          /\ datasetStats[1][i].result[2].t = "object"
          /\ lastOp.range = <<Num(datasetStats[1][i].result[1].n),
                              Num(datasetStats[1][i].result[2].n)>>

TypePredicateOps ==
    {"isDateTimeField.get", "isDateField.get", "isNumericField.get",
     "isSupportField.get", "isIntField.get"}

UnknownField(name) ==
    name \notin DOMAIN primitivesMap /\ name \notin DOMAIN primitivesSubfieldMap

\* C13: for a field path in neither the primitive-type mapping nor the
\* list-subfield mapping, isDateTimeField, isDateField, isNumericField,
\* isSupportField and isIntField each return false.
C13_UnknownFieldMatchesNothing ==
    /\ \A n \in FieldNames :
          UnknownField(n) =>
              /\ ~isDateTimeField(n)
              /\ ~isDateField(n)
              /\ ~isNumericField(n)
              /\ ~isSupportField(n)
              /\ ~isIntField(n)
    /\ (lastOp.op \in TypePredicateOps /\ UnknownField(lastOp.path)) =>
          lastOp.none = False

\* isNumericField asked about a field that is in no mapping
C13_Witness ==
    /\ lastOp.op = "isNumericField.get"
    /\ UnknownField(lastOp.path)
    /\ lastOp.none = False
====
